---- MODULE Spec2Model ----
(***************************************************************************)
(* A model of the DockerManager of docker/manager.go: the three public     *)
(* operations that talk to the daemon (HasImage, PullImage,                *)
(* ContainerCreate), the credential lookup getAuthConfig, and the cancel   *)
(* function of the manager's shared context.                               *)
(*                                                                         *)
(* Strings are sequences of one-character strings, so that the string      *)
(* operations of the code (Contains, concatenation, Sprintf, JSON and      *)
(* base64 encoding, reference parsing) are computed character by           *)
(* character.                                                              *)
(***************************************************************************)
EXTENDS Integers, Sequences, FiniteSets, TLC

(***************************************************************************)
(* Bounds of the model.                                                    *)
(***************************************************************************)
\* longest image reference passed to HasImage and PullImage
MaxRefLen == 5
\* longest sequence of mount specifications in a configuration
MaxMounts == 2

(***************************************************************************)
(* Strings.                                                                *)
(***************************************************************************)
\* The characters image references are built from: a lower-case letter, a
\* digit, the tag/port separator and the path separator.
RefAlphabet == {"a", "5", ":", "/"}

LowerChars ==
    {"a", "b", "c", "d", "e", "f", "g", "h", "i", "j", "k", "l", "m", "n", "o", "p", "q", "r", "s", "t", "u", "v", "w", "x", "y", "z"}

DigitChars == {"0", "1", "2", "3", "4", "5", "6", "7", "8", "9"}

AlphaNumChars == LowerChars \cup DigitChars

EmptyString == << >>

\* strings.Contains(s, ch) for a one-character ch
Contains(s, ch) == \E i \in 1..Len(s) : s[i] = ch

\* strings.IndexRune(s, ch), one-based; 0 when ch does not occur (Go: -1)
IndexRune(s, ch) ==
    IF Contains(s, ch)
    THEN CHOOSE i \in 1..Len(s) : s[i] = ch /\ \A j \in 1..(i - 1) : s[j] # ch
    ELSE 0

\* s[from..to] (one-based, inclusive); empty when from > to
Slice(s, from, to) == [i \in 1..(IF to >= from THEN to - from + 1 ELSE 0) |-> s[from + i - 1]]

\* every string over alphabet of length at most n
StringsUpTo(alphabet, n) == UNION {[1..k -> alphabet] : k \in 0..n}

LatestSuffix == <<":", "l", "a", "t", "e", "s", "t">>

(***************************************************************************)
(* HasImage: tag normalisation and the search of the image list.           *)
(***************************************************************************)
\* manager.go 80-82: a reference without ':' gets ":latest" appended
HasImageNormalize(image) ==
    IF ~Contains(image, ":") THEN image \o LatestSuffix ELSE image

\* manager.go 90-100: some repo-tag of some listed image equals image
HasImageSearch(images, image) ==
    \E i \in 1..Len(images) :
        \E j \in 1..Len(images[i].RepoTags) : images[i].RepoTags[j] = image

(***************************************************************************)
(* Image references, as reference.ParseNormalizedNamed and                 *)
(* reference.Domain of github.com/docker/distribution treat them           *)
(* (manager.go 53, 58).  The grammar is the library's, restricted to the   *)
(* characters of RefAlphabet: a path component is a run of lower-case      *)
(* letters and digits, a tag a run of word characters, a domain a host     *)
(* with an optional ":" and a numeric port.                                *)
(***************************************************************************)
DefaultDomain == <<"d", "o", "c", "k", "e", "r", ".", "i", "o">>

Localhost == <<"l", "o", "c", "a", "l", "h", "o", "s", "t">>

OfficialRepoPrefix == <<"l", "i", "b", "r", "a", "r", "y", "/">>

AllIn(s, chars) == \A i \in 1..Len(s) : s[i] \in chars

\* splitDockerDomain: the part before the first "/" is the registry domain
\* only when it contains "." or ":" or is "localhost"
SplitDockerDomain(name) ==
    LET i == IndexRune(name, "/")
        head == Slice(name, 1, i - 1)
        explicit == /\ i # 0
                    /\ (Contains(head, ".") \/ Contains(head, ":") \/ head = Localhost)
        domain == IF explicit THEN head ELSE DefaultDomain
        rest == IF explicit THEN Slice(name, i + 1, Len(name)) ELSE name
    IN  [domain |-> domain,
         remainder |-> IF domain = DefaultDomain /\ ~Contains(rest, "/")
                       THEN OfficialRepoPrefix \o rest
                       ELSE rest]

\* domain := host [ ":" port ], port := digit+
IsDomain(d) ==
    LET c == IndexRune(d, ":")
        host == IF c = 0 THEN d ELSE Slice(d, 1, c - 1)
        port == Slice(d, c + 1, Len(d))
    IN  /\ \/ d = DefaultDomain
           \/ d = Localhost
           \/ Len(host) >= 1 /\ AllIn(host, AlphaNumChars)
        /\ c # 0 => Len(port) >= 1 /\ AllIn(port, DigitChars)

\* path := component ( "/" component )*, component := [a-z0-9]+
IsPath(p) ==
    /\ Len(p) >= 1
    /\ \A i \in 1..Len(p) : p[i] \in AlphaNumChars \cup {"/"}
    /\ p[1] # "/" /\ p[Len(p)] # "/"
    /\ \A i \in 1..(Len(p) - 1) : ~(p[i] = "/" /\ p[i + 1] = "/")

\* tag := [A-Za-z0-9_][A-Za-z0-9_.-]*
IsTag(t) == Len(t) >= 1 /\ AllIn(t, AlphaNumChars)

\* reference.ParseNormalizedNamed(s): err is TRUE when s is no reference;
\* otherwise domain, path and tag are the parts of the normalised name
\* (tag is empty when s names none)
ParseNormalizedNamed(s) ==
    LET split == SplitDockerDomain(s)
        r == split.remainder
        tagSep == IndexRune(r, ":")
        path == IF tagSep = 0 THEN r ELSE Slice(r, 1, tagSep - 1)
        tag == Slice(r, tagSep + 1, IF tagSep = 0 THEN 0 ELSE Len(r))
        ok == /\ IsDomain(split.domain)
              /\ IsPath(path)
              /\ tagSep # 0 => IsTag(tag)
    IN  [err |-> ~ok, domain |-> split.domain, path |-> path, tag |-> tag]

\* reference.Domain(named)
Domain(named) == named.domain

(***************************************************************************)
(* Registry credentials: getAuthConfig, json.Marshal of types.AuthConfig   *)
(* and base64.URLEncoding.                                                 *)
(***************************************************************************)
\* types.AuthConfig{}: every field empty
EmptyAuthConfig ==
    [Username |-> EmptyString, Password |-> EmptyString, Auth |-> EmptyString,
     Email |-> EmptyString, ServerAddress |-> EmptyString,
     IdentityToken |-> EmptyString, RegistryToken |-> EmptyString]

\* a lookup that hands the whole stored entry on
getAuthConfigWholeEntry(dockerCfg, registry) ==
    IF dockerCfg.err
    THEN EmptyAuthConfig
    ELSE IF registry \notin DOMAIN dockerCfg.Configs
    THEN EmptyAuthConfig
    ELSE [EmptyAuthConfig EXCEPT
            !.Username = dockerCfg.Configs[registry].Username,
            !.Password = dockerCfg.Configs[registry].Password,
            !.Email = dockerCfg.Configs[registry].Email,
            !.ServerAddress = dockerCfg.Configs[registry].ServerAddress,
            !.IdentityToken = dockerCfg.Configs[registry].IdentityToken]

\* manager.go 172-187.  dockerCfg is what NewAuthConfigurationsFromDockerCfg
\* finds: err when the configuration cannot be read, else Configs, the
\* stored entries keyed by registry domain.
getAuthConfig(dockerCfg, registry) ==
    IF dockerCfg.err
    THEN EmptyAuthConfig
    ELSE IF registry \notin DOMAIN dockerCfg.Configs
    THEN EmptyAuthConfig
    ELSE [EmptyAuthConfig EXCEPT
            !.Username = dockerCfg.Configs[registry].Username,
            !.Password = dockerCfg.Configs[registry].Password]

\* the byte of a character of the JSON text
Ascii(ch) ==
    CASE ch = "\"" -> 34
      [] ch = "," -> 44
      [] ch = ":" -> 58
      [] ch = "{" -> 123
      [] ch = "}" -> 125
      [] ch = "a" -> 97
      [] ch = "b" -> 98
      [] ch = "c" -> 99
      [] ch = "d" -> 100
      [] ch = "e" -> 101
      [] ch = "f" -> 102
      [] ch = "g" -> 103
      [] ch = "h" -> 104
      [] ch = "i" -> 105
      [] ch = "j" -> 106
      [] ch = "k" -> 107
      [] ch = "l" -> 108
      [] ch = "m" -> 109
      [] ch = "n" -> 110
      [] ch = "o" -> 111
      [] ch = "p" -> 112
      [] ch = "q" -> 113
      [] ch = "r" -> 114
      [] ch = "s" -> 115
      [] ch = "t" -> 116
      [] ch = "u" -> 117
      [] ch = "v" -> 118
      [] ch = "w" -> 119
      [] ch = "x" -> 120
      [] ch = "y" -> 121
      [] ch = "z" -> 122

\* the fields of types.AuthConfig in declaration order with their JSON keys;
\* every one is tagged omitempty
AuthConfigJSONFields ==
    << [key |-> <<"u", "s", "e", "r", "n", "a", "m", "e">>, field |-> "Username"],
       [key |-> <<"p", "a", "s", "s", "w", "o", "r", "d">>, field |-> "Password"],
       [key |-> <<"a", "u", "t", "h">>, field |-> "Auth"],
       [key |-> <<"e", "m", "a", "i", "l">>, field |-> "Email"],
       [key |-> <<"s", "e", "r", "v", "e", "r", "a", "d", "d", "r", "e", "s", "s">>,
        field |-> "ServerAddress"],
       [key |-> <<"i", "d", "e", "n", "t", "i", "t", "y", "t", "o", "k", "e", "n">>,
        field |-> "IdentityToken"],
       [key |-> <<"r", "e", "g", "i", "s", "t", "r", "y", "t", "o", "k", "e", "n">>,
        field |-> "RegistryToken"] >>

JSONString(s) == <<"\"">> \o s \o <<"\"">>

RECURSIVE JSONMembers(_, _, _)
\* the members of fields k.. of authConfig, empty fields omitted, each after
\* the first preceded by ","
JSONMembers(authConfig, k, first) ==
    IF k > Len(AuthConfigJSONFields)
    THEN << >>
    ELSE LET f == AuthConfigJSONFields[k]
             v == authConfig[f.field]
         IN  IF v = EmptyString
             THEN JSONMembers(authConfig, k + 1, first)
             ELSE (IF first THEN << >> ELSE <<",">>)
                  \o JSONString(f.key) \o <<":">> \o JSONString(v)
                  \o JSONMembers(authConfig, k + 1, FALSE)

\* json.Marshal(authConfig): the text of the JSON object
MarshalAuthConfig(authConfig) ==
    <<"{">> \o JSONMembers(authConfig, 1, TRUE) \o <<"}">>

Base64URLAlphabet ==
    <<"A", "B", "C", "D", "E", "F", "G", "H", "I", "J", "K", "L", "M", "N", "O", "P", "Q", "R", "S", "T", "U", "V", "W", "X", "Y", "Z", "a", "b", "c", "d", "e", "f", "g", "h", "i", "j", "k", "l", "m", "n", "o", "p", "q", "r", "s", "t", "u", "v", "w", "x", "y", "z", "0", "1", "2", "3", "4", "5", "6", "7", "8", "9", "-", "_">>

\* base64.URLEncoding.EncodeToString: three bytes to four characters, the
\* last group padded with "="
Base64URLEncode(bytes) ==
    LET n == Len(bytes)
        byteAt(i) == IF i <= n THEN bytes[i] ELSE 0
        sextet(g, pos) ==
            LET b1 == byteAt(3 * g + 1)
                b2 == byteAt(3 * g + 2)
                b3 == byteAt(3 * g + 3)
            IN  CASE pos = 0 -> b1 \div 4
                  [] pos = 1 -> (b1 % 4) * 16 + (b2 \div 16)
                  [] pos = 2 -> (b2 % 16) * 4 + (b3 \div 64)
                  [] pos = 3 -> b3 % 64
        char(p) ==
            LET g == (p - 1) \div 4
                pos == (p - 1) % 4
            IN  IF 3 * g + pos > n
                THEN "="
                ELSE Base64URLAlphabet[sextet(g, pos) + 1]
    IN  [p \in 1..(4 * ((n + 2) \div 3)) |-> char(p)]

\* manager.go 59-64: the RegistryAuth string of an auth configuration
\* (json.Marshal cannot fail on this struct of strings, so the return at
\* 60-63 is never taken)
EncodeAuth(authConfig) ==
    LET encodedJSON == MarshalAuthConfig(authConfig)
    IN  Base64URLEncode([i \in 1..Len(encodedJSON) |-> Ascii(encodedJSON[i])])

(***************************************************************************)
(* ContainerCreate: translation of the configuration.                      *)
(***************************************************************************)
\* a translation that forgets the read-only flag
TranslateMountsNoReadOnly(configMounts) ==
    [i \in 1..Len(configMounts) |->
        [Source |-> configMounts[i].Source,
         Target |-> configMounts[i].Target,
         ReadOnly |-> FALSE,
         Type |-> "bind"]]

\* manager.go 111-119: one bind mount per mount specification, in order
TranslateMounts(configMounts) ==
    [i \in 1..Len(configMounts) |->
        [Source |-> configMounts[i].Source,
         Target |-> configMounts[i].Target,
         ReadOnly |-> configMounts[i].ReadOnly,
         Type |-> "bind"]]

\* the orders in which a range over the map env may visit its keys
KeyOrders(env) ==
    {order \in [1..Cardinality(DOMAIN env) -> DOMAIN env] :
        \A i, j \in DOMAIN order : i # j => order[i] # order[j]}

\* manager.go 121-126: fmt.Sprintf("%s=%s", key, value) for every key, in
\* the order the map iteration yields them
FlattenEnv(env, order) ==
    [i \in 1..Len(order) |-> order[i] \o <<"=">> \o env[order[i]]]

\* a request that puts "-c" into the entrypoint and leaves the network mode
\* to the daemon's default
CreateRequestExecForm(config, wd, mounts, env) ==
    [call |-> "ContainerCreate",
     Config |-> [Image |-> config.Image,
                 Entrypoint |-> <<"sh", "-c">>,
                 Cmd |-> <<config.Cmd>>,
                 WorkingDir |-> wd,
                 Env |-> env],
     HostConfig |-> [Mounts |-> mounts, NetworkMode |-> ""],
     NetworkingConfig |-> "nil",
     Name |-> ""]

\* manager.go 128-145: the arguments of client.ContainerCreate
CreateRequest(config, wd, mounts, env) ==
    [call |-> "ContainerCreate",
     Config |-> [Image |-> config.Image,
                 Entrypoint |-> <<"sh">>,
                 Cmd |-> <<"-c", config.Cmd>>,
                 WorkingDir |-> wd,
                 Env |-> env],
     HostConfig |-> [Mounts |-> mounts, NetworkMode |-> "host"],
     NetworkingConfig |-> "nil",
     Name |-> ""]

\* manager.go 158-170
GetSystemMounts ==
    << [Source |-> "/var/run/docker.sock", Target |-> "/var/run/docker.sock",
        ReadOnly |-> FALSE],
       [Source |-> "/root/.docker", Target |-> "/root/.docker", ReadOnly |-> TRUE] >>

(***************************************************************************)
(* Errors and the outcome of a daemon call.                                *)
(***************************************************************************)
NoError == "nil"

Canceled == "context canceled"

DaemonError == "daemon error"

DecodeError == "decode error"

ParseError == "invalid reference format"

GetwdError == "getwd error"

CopyError == "copy error"

\* a call bound to context.Background() instead: cancelling the manager's
\* context does not reach it
DaemonCallErrBackground(ctxCancelled, outcome) == outcome

\* A call bound to the manager's context (manager.go 66, 84, 128): it fails
\* with the context's error once the context is cancelled, and otherwise
\* ends as the daemon and the connection decide.
DaemonCallErr(ctxCancelled, outcome) ==
    IF ctxCancelled THEN Canceled ELSE outcome

\* HasImage without the return on a failed listing: it searches whatever
\* the call left in images
HasImageResultNoReturn(err, images, image) == HasImageSearch(images, image)

\* manager.go 85-102: the result of HasImage from what ImageList returned
HasImageResult(err, images, image) ==
    IF err # NoError THEN FALSE ELSE HasImageSearch(images, image)

\* HasImage without the test for the empty reference
HasImageEntryPcNoEmptyCheck(image) == "HasImage_ImageList"

\* manager.go 77-79: where HasImage goes after looking at its argument
HasImageEntryPc(image) ==
    IF image = EmptyString THEN "returned" ELSE "HasImage_ImageList"

\* PullImage going on after a failed parse
PullImageEntryPcIgnoreErr(parseErr) == "PullImage_ImagePull"

\* manager.go 54-57: where PullImage goes after parsing the reference
PullImageEntryPc(parseErr) ==
    IF parseErr THEN "returned" ELSE "PullImage_ImagePull"

\* an operation that issues a failed daemon call again
AfterDaemonCallRetry(callPc, err, successPc) ==
    IF err # NoError THEN callPc ELSE successPc

\* manager.go 67-70, 85-88, 147-150: a failed daemon call ends the
\* operation; a successful one lets it go on to successPc
AfterDaemonCall(callPc, err, successPc) ==
    IF err # NoError THEN "returned" ELSE successPc

\* a Close placed after io.Copy and skipped when the copy fails
ReleaseStreamOnSuccess(copyErr, stream) ==
    IF copyErr = NoError THEN [stream EXCEPT !.closed = @ + 1] ELSE stream

\* manager.go 71: the deferred out.Close() runs when PullImage returns,
\* whatever io.Copy returned
ReleaseStream(copyErr, stream) ==
    [stream EXCEPT !.closed = @ + 1]

\* manager.go 72-73: the error of io.Copy is discarded
PullImageCopyResult(copyErr) == NoError

(***************************************************************************)
(* The inputs the callers and the environment choose from.                 *)
(***************************************************************************)
\* the goroutines that call the manager
Callers == {"c1", "c2"}

\* every string of at most MaxRefLen characters: the references handed to
\* HasImage and PullImage by a single caller
AllRefs == StringsUpTo(RefAlphabet, MaxRefLen)

\* the references concurrent callers use: empty, untagged, tagged,
\* untagged behind a registry with a port, malformed
FewRefs ==
    {EmptyString, <<"a">>, <<"a", ":", "a">>, <<"a", ":", "5", "/", "a">>, <<":">>}

Image(tags) == [RepoTags |-> tags]

\* what the daemon may hold locally: lists of images with their repo-tags
DaemonStores ==
    { << >>,
      << Image(<< <<"a", ":", "l", "a", "t", "e", "s", "t">> >>) >>,
      << Image(<< >>),
         Image(<< <<"a", ":", "a">>,
                  <<"a", ":", "5", "/", "a", ":", "l", "a", "t", "e", "s", "t">> >>) >>,
      << Image(<< <<"5", ":", "5">> >>),
         Image(<< <<"a", "/", "a", ":", "l", "a", "t", "e", "s", "t">>,
                  <<"a", "/", "a", ":", "5">> >>) >> }

PortDomain == <<"a", ":", "5">>

StoredEntry(user, pass, token) ==
    [Username |-> user, Password |-> pass, Email |-> <<"e">>,
     ServerAddress |-> <<"s">>, IdentityToken |-> token]

\* what the local docker configuration may hold: unreadable, no entry, an
\* entry for the default registry, an entry for a registry with a port
DockerCfgs ==
    { [err |-> TRUE, Configs |-> << >>],
      [err |-> FALSE, Configs |-> << >>],
      [err |-> FALSE,
       Configs |-> (DefaultDomain :> StoredEntry(<<"u">>, <<"p">>, <<"t">>))],
      [err |-> FALSE,
       Configs |-> (PortDomain :> StoredEntry(<<"u">>, EmptyString, EmptyString))] }

MountSpecs ==
    [Source : {"/tmp/a", "/tmp/b"}, Target : {"/a", "/b"}, ReadOnly : BOOLEAN]

MountSeqs(n) == UNION {[1..k -> MountSpecs] : k \in 0..n}

EchoHi == <<"e", "c", "h", "o", " ", "h", "i">>

PipeCmd == <<"a", "|", "b", ">", "c", ";", "$", "(", "x", ")">>

Envs ==
    { << >>,
      (<<"X">> :> <<"1">>),
      (<<"X">> :> <<"1">>) @@ (<<"Y">> :> <<"a", "=", "b">>) }

\* the configurations a single caller hands to ContainerCreate
AllConfigs ==
    [Image : {<<"a">>, <<"a", ":", "5", "/", "a">>},
     Cmd : {EchoHi, PipeCmd},
     Env : Envs,
     Mounts : MountSeqs(MaxMounts)]

\* the configurations concurrent callers use
FewConfigs ==
    { [Image |-> <<"a">>, Cmd |-> EchoHi, Env |-> (<<"X">> :> <<"1">>),
       Mounts |-> << [Source |-> "/tmp/a", Target |-> "/a", ReadOnly |-> FALSE] >>],
      [Image |-> <<"a">>, Cmd |-> PipeCmd, Env |-> << >>,
       Mounts |-> GetSystemMounts] }

WorkingDir == "/work"

(***************************************************************************)
(* State.                                                                  *)
(***************************************************************************)
VARIABLES
    cancelled,  \* whether the manager's cancel function has been invoked
    pc,         \* where each caller is in the operation it runs
    call,       \* the operation each caller runs and its argument
    locals,     \* the local variables of that operation
    observed,   \* what the environment held when the operation read it
    request,    \* the last request the operation sent to the daemon
    calls,      \* how many daemon calls the operation has issued, by kind
    out,        \* the response stream of the operation's pull
    stdout,     \* how much of the pull progress the operation relayed
    ret         \* what the operation returned

vars == <<cancelled, pc, call, locals, observed, request, calls, out, stdout, ret>>

NoCall == [op |-> "none", arg |-> << >>]

NoLocals ==
    [image |-> << >>, images |-> << >>, authStr |-> << >>, wd |-> "",
     mounts |-> << >>, env |-> << >>, err |-> NoError]

NoObserved == [daemonStore |-> << >>, dockerCfg |-> [err |-> TRUE, Configs |-> << >>]]

NoRequest == [call |-> "none"]

NoCalls == [ImageList |-> 0, ImagePull |-> 0, ContainerCreate |-> 0]

NoStream == [opened |-> 0, closed |-> 0]

NoRet == [val |-> "none", err |-> "none"]

\* NewDockerManager (manager.go 32-50): a fresh context, nobody calling
Init ==
    /\ cancelled = FALSE
    /\ pc = [c \in Callers |-> "idle"]
    /\ call = [c \in Callers |-> NoCall]
    /\ locals = [c \in Callers |-> NoLocals]
    /\ observed = [c \in Callers |-> NoObserved]
    /\ request = [c \in Callers |-> NoRequest]
    /\ calls = [c \in Callers |-> NoCalls]
    /\ out = [c \in Callers |-> NoStream]
    /\ stdout = [c \in Callers |-> "nothing"]
    /\ ret = [c \in Callers |-> NoRet]

(***************************************************************************)
(* The cancel function of the manager's context (manager.go 38, 46).       *)
(***************************************************************************)
Cancel ==
    /\ ~cancelled
    /\ cancelled' = TRUE
    /\ UNCHANGED <<pc, call, locals, observed, request, calls, out, stdout, ret>>

(***************************************************************************)
(* HasImage (manager.go 76-103).                                           *)
(***************************************************************************)
\* 76-82: the empty reference returns false at once; any other is
\* normalised and the operation goes on to list the images
HasImageEnter(c, image) ==
    /\ pc[c] = "idle"
    /\ call' = [call EXCEPT ![c] = [op |-> "HasImage", arg |-> image]]
    /\ pc' = [pc EXCEPT ![c] = HasImageEntryPc(image)]
    /\ IF HasImageEntryPc(image) = "returned"
       THEN /\ ret' = [ret EXCEPT ![c] = [val |-> FALSE, err |-> NoError]]
            /\ UNCHANGED locals
       ELSE /\ locals' = [locals EXCEPT ![c].image = HasImageNormalize(image)]
            /\ UNCHANGED ret
    /\ UNCHANGED <<cancelled, observed, request, calls, out, stdout>>

\* 84-102: the ImageList call and the search of its result.  store is what
\* the daemon holds; a decode error leaves the images decoded so far in
\* the result, any other failure leaves none.
HasImageList(c, store, outcome) ==
    /\ pc[c] = "HasImage_ImageList"
    /\ LET err == DaemonCallErr(cancelled, outcome)
           images == IF err \in {NoError, DecodeError} THEN store ELSE << >>
       IN  /\ calls' = [calls EXCEPT ![c].ImageList = @ + 1]
           /\ request' = [request EXCEPT ![c] = [call |-> "ImageList", All |-> FALSE]]
           /\ observed' = [observed EXCEPT ![c].daemonStore = store]
           /\ locals' = [locals EXCEPT ![c].images = images, ![c].err = err]
           /\ pc' = [pc EXCEPT ![c] = AfterDaemonCall(pc[c], err, "returned")]
           /\ ret' = [ret EXCEPT ![c] =
                        [val |-> HasImageResult(err, images, locals[c].image),
                         err |-> NoError]]
    /\ UNCHANGED <<cancelled, call, out, stdout>>

(***************************************************************************)
(* PullImage (manager.go 52-74).                                           *)
(***************************************************************************)
\* 53-64: parse the reference, look the credentials of its domain up in
\* dockerCfg, encode them
PullImageEnter(c, image, dockerCfg) ==
    /\ pc[c] = "idle"
    /\ call' = [call EXCEPT ![c] = [op |-> "PullImage", arg |-> image]]
    /\ LET named == ParseNormalizedNamed(image)
       IN  /\ pc' = [pc EXCEPT ![c] = PullImageEntryPc(named.err)]
           /\ IF PullImageEntryPc(named.err) = "returned"
              THEN /\ ret' = [ret EXCEPT ![c] = [val |-> "none", err |-> ParseError]]
                   /\ locals' = [locals EXCEPT ![c].err = ParseError]
                   /\ UNCHANGED observed
              ELSE /\ locals' = [locals EXCEPT ![c].authStr =
                                   EncodeAuth(getAuthConfig(dockerCfg, Domain(named)))]
                   /\ observed' = [observed EXCEPT ![c].dockerCfg = dockerCfg]
                   /\ UNCHANGED ret
    /\ UNCHANGED <<cancelled, request, calls, out, stdout>>

\* 66-70: the ImagePull call with the reference as given and the encoded
\* credentials; on success the response stream is open
PullImagePull(c, outcome) ==
    /\ pc[c] = "PullImage_ImagePull"
    /\ LET err == DaemonCallErr(cancelled, outcome)
       IN  /\ calls' = [calls EXCEPT ![c].ImagePull = @ + 1]
           /\ request' = [request EXCEPT ![c] =
                            [call |-> "ImagePull", ref |-> call[c].arg,
                             RegistryAuth |-> locals[c].authStr]]
           /\ locals' = [locals EXCEPT ![c].err = err]
           /\ pc' = [pc EXCEPT ![c] = AfterDaemonCall(pc[c], err, "PullImage_Copy")]
           /\ IF err # NoError
              THEN /\ ret' = [ret EXCEPT ![c] = [val |-> "none", err |-> err]]
                   /\ UNCHANGED out
              ELSE /\ out' = [out EXCEPT ![c].opened = @ + 1]
                   /\ UNCHANGED ret
    /\ UNCHANGED <<cancelled, call, observed, stdout>>

\* 71-73: io.Copy relays the stream to standard output until it ends or
\* fails (reading it fails once the context is cancelled), the deferred
\* Close runs, and PullImage returns nil
PullImageCopy(c, outcome) ==
    /\ pc[c] = "PullImage_Copy"
    /\ LET copyErr == DaemonCallErr(cancelled, outcome)
       IN  /\ stdout' = [stdout EXCEPT ![c] =
                           IF copyErr = NoError THEN "everything" ELSE "a part"]
           /\ out' = [out EXCEPT ![c] = ReleaseStream(copyErr, out[c])]
           /\ ret' = [ret EXCEPT ![c] =
                        [val |-> "none", err |-> PullImageCopyResult(copyErr)]]
    /\ pc' = [pc EXCEPT ![c] = "returned"]
    /\ UNCHANGED <<cancelled, call, locals, observed, request, calls>>

(***************************************************************************)
(* ContainerCreate (manager.go 105-156).                                   *)
(***************************************************************************)
\* 106-126: resolve the working directory, translate the mounts, flatten
\* the environment in the order the map iteration takes
ContainerCreateEnter(c, config, wdErr, order) ==
    /\ pc[c] = "idle"
    /\ call' = [call EXCEPT ![c] = [op |-> "ContainerCreate", arg |-> config]]
    /\ IF wdErr # NoError
       THEN /\ pc' = [pc EXCEPT ![c] = "returned"]
            /\ ret' = [ret EXCEPT ![c] = [val |-> "nil", err |-> wdErr]]
            /\ locals' = [locals EXCEPT ![c].err = wdErr]
       ELSE /\ pc' = [pc EXCEPT ![c] = "ContainerCreate_Create"]
            /\ locals' = [locals EXCEPT
                            ![c].wd = WorkingDir,
                            ![c].mounts = TranslateMounts(config.Mounts),
                            ![c].env = FlattenEnv(config.Env, order)]
            /\ UNCHANGED ret
    /\ UNCHANGED <<cancelled, observed, request, calls, out, stdout>>

\* 128-155: the create call; its result is a handle on the new container
ContainerCreateCreate(c, outcome) ==
    /\ pc[c] = "ContainerCreate_Create"
    /\ LET err == DaemonCallErr(cancelled, outcome)
       IN  /\ calls' = [calls EXCEPT ![c].ContainerCreate = @ + 1]
           /\ request' = [request EXCEPT ![c] =
                            CreateRequest(call[c].arg, locals[c].wd,
                                          locals[c].mounts, locals[c].env)]
           /\ locals' = [locals EXCEPT ![c].err = err]
           /\ pc' = [pc EXCEPT ![c] = AfterDaemonCall(pc[c], err, "returned")]
           /\ ret' = [ret EXCEPT ![c] =
                        IF err # NoError
                        THEN [val |-> "nil", err |-> err]
                        ELSE [val |-> [manager |-> "dm", id |-> "container id"],
                              err |-> NoError]]
    /\ UNCHANGED <<cancelled, call, observed, out, stdout>>

(***************************************************************************)
(* The caller takes the result and is free to call again.                  *)
(***************************************************************************)
Return(c) ==
    /\ pc[c] = "returned"
    /\ pc' = [pc EXCEPT ![c] = "idle"]
    /\ call' = [call EXCEPT ![c] = NoCall]
    /\ locals' = [locals EXCEPT ![c] = NoLocals]
    /\ observed' = [observed EXCEPT ![c] = NoObserved]
    /\ request' = [request EXCEPT ![c] = NoRequest]
    /\ calls' = [calls EXCEPT ![c] = NoCalls]
    /\ out' = [out EXCEPT ![c] = NoStream]
    /\ stdout' = [stdout EXCEPT ![c] = "nothing"]
    /\ ret' = [ret EXCEPT ![c] = NoRet]
    /\ UNCHANGED cancelled

(***************************************************************************)
(* Specifications.                                                         *)
(***************************************************************************)
ListOutcomes == {NoError, DaemonError, DecodeError}

CallOutcomes == {NoError, DaemonError}

CopyOutcomes == {NoError, CopyError}

Steps(c) ==
    \/ \E store \in DaemonStores, outcome \in ListOutcomes : HasImageList(c, store, outcome)
    \/ \E outcome \in CallOutcomes : PullImagePull(c, outcome)
    \/ \E outcome \in CopyOutcomes : PullImageCopy(c, outcome)
    \/ \E outcome \in CallOutcomes : ContainerCreateCreate(c, outcome)
    \/ Return(c)

\* one caller, every input within the bounds
Next ==
    \/ Cancel
    \/ /\ pc["c1"] = "idle"
       /\ \E image \in AllRefs : HasImageEnter("c1", image)
    \/ /\ pc["c1"] = "idle"
       /\ \E image \in AllRefs, dockerCfg \in DockerCfgs :
             PullImageEnter("c1", image, dockerCfg)
    \/ /\ pc["c1"] = "idle"
       /\ \E config \in AllConfigs, wdErr \in {NoError, GetwdError} :
             \E order \in KeyOrders(config.Env) :
                ContainerCreateEnter("c1", config, wdErr, order)
    \/ Steps("c1")

Spec == Init /\ [][Next]_vars

\* concurrent callers, a few inputs each
NextConcurrent ==
    \/ Cancel
    \/ \E c \in Callers :
          \/ \E image \in FewRefs : HasImageEnter(c, image)
          \/ \E image \in FewRefs, dockerCfg \in DockerCfgs :
                PullImageEnter(c, image, dockerCfg)
          \/ \E config \in FewConfigs, wdErr \in {NoError, GetwdError} :
                \E order \in KeyOrders(config.Env) :
                   ContainerCreateEnter(c, config, wdErr, order)
          \/ Steps(c)

SpecConcurrent == Init /\ [][NextConcurrent]_vars

(***************************************************************************)
(* The claims.                                                             *)
(***************************************************************************)
Returned(c, op) == pc[c] = "returned" /\ call[c].op = op

\* the one-based index of the last ch in s; 0 when ch does not occur
LastIndex(s, ch) ==
    IF Contains(s, ch)
    THEN CHOOSE i \in 1..Len(s) : s[i] = ch /\ \A j \in (i + 1)..Len(s) : s[j] # ch
    ELSE 0

\* a reference names no tag when no ":" follows its last "/" (a ":" before
\* it belongs to the registry's port)
LacksTag(ref) == ~Contains(Slice(ref, LastIndex(ref, "/") + 1, Len(ref)), ":")

\* the string the claim has HasImage compare against the repo-tags
ComparedString(ref) == IF LacksTag(ref) THEN ref \o LatestSuffix ELSE ref

\* C1: for every well-formed reference handed to HasImage, the string compared
\* with the repo-tags is the reference with ":latest" appended when it lacks
\* a tag (also when its registry carries a port) and the reference itself
\* when it has a tag, and HasImage returns true exactly when a repo-tag of a
\* listed image equals that string.
C1_ComparesTagNormalizedReference ==
    \A c \in Callers :
        /\ Returned(c, "HasImage")
        /\ call[c].arg # EmptyString
        /\ ~ParseNormalizedNamed(call[c].arg).err
        => /\ locals[c].image = ComparedString(call[c].arg)
           /\ locals[c].err = NoError =>
                 (ret[c].val <=>
                    HasImageSearch(locals[c].images, ComparedString(call[c].arg)))

\* the pcs at which an operation has a daemon call, or the stream of one,
\* before it
InFlightPcs ==
    {"HasImage_ImageList", "PullImage_ImagePull", "PullImage_Copy",
     "ContainerCreate_Create"}

\* C2 as stated: once cancel has been invoked, every operation with a daemon
\* call in flight or still to make returns a cancellation error to its
\* caller.
C2_CancelledCallerObservesCancellation ==
    [][\A c \in Callers :
          cancelled /\ pc[c] \in InFlightPcs /\ pc'[c] = "returned" =>
              ret'[c].err = Canceled]_vars

\* C2 as amended: once cancel has been invoked, every daemon call an
\* operation then makes fails with the cancellation error and ends the
\* operation; PullImage (before its pull is accepted) and ContainerCreate
\* return that error, HasImage swallows it and returns false, and a
\* PullImage that is relaying its stream relays no further, closes the
\* stream and returns nil.
C2_CancelAbortsDaemonCalls ==
    [][\A c \in Callers :
          cancelled /\ pc[c] \in InFlightPcs /\ pc'[c] # pc[c] =>
              /\ pc'[c] = "returned"
              /\ calls'[c].ImageList + calls'[c].ImagePull + calls'[c].ContainerCreate = 1
              /\ pc[c] \in {"PullImage_ImagePull", "ContainerCreate_Create"} =>
                    /\ locals'[c].err = Canceled
                    /\ ret'[c].err = Canceled
                    /\ out'[c] = NoStream
              /\ pc[c] = "HasImage_ImageList" =>
                    /\ locals'[c].err = Canceled
                    /\ ret'[c] = [val |-> FALSE, err |-> NoError]
              /\ pc[c] = "PullImage_Copy" =>
                    /\ ret'[c].err = NoError
                    /\ stdout'[c] = "a part"
                    /\ out'[c] = [opened |-> 1, closed |-> 1]]_vars

\* two callers overtaken by the cancel: one gets the cancellation error from
\* PullImage, the other false from HasImage
C2_Witness ==
    /\ cancelled
    /\ \E c, d \in Callers :
          /\ c # d
          /\ Returned(c, "PullImage") /\ ret[c].err = Canceled
          /\ Returned(d, "HasImage") /\ locals[d].err = Canceled /\ ret[d].val = FALSE

\* C3: HasImage reports no error, and whenever the image-list query fails it
\* returns false, whatever the daemon holds.
C3_ListFailureYieldsFalse ==
    \A c \in Callers :
        Returned(c, "HasImage") =>
            /\ ret[c].err = NoError
            /\ ret[c].val \in BOOLEAN
            /\ locals[c].err # NoError => ret[c].val = FALSE

\* the listing failed although the daemon holds the image asked for
C3_Witness ==
    \E c \in Callers :
        /\ Returned(c, "HasImage")
        /\ locals[c].err \in {DaemonError, DecodeError}
        /\ HasImageSearch(observed[c].daemonStore, locals[c].image)
        /\ ret[c].val = FALSE

\* C4: HasImage of the empty string returns false without any daemon call.
C4_EmptyReferenceNoDaemonCall ==
    \A c \in Callers :
        call[c].op = "HasImage" /\ call[c].arg = EmptyString =>
            /\ pc[c] = "returned"
            /\ ret[c] = [val |-> FALSE, err |-> NoError]
            /\ calls[c] = NoCalls
            /\ request[c] = NoRequest

C4_Witness ==
    \E c \in Callers : Returned(c, "HasImage") /\ call[c].arg = EmptyString

\* C5: PullImage of a reference that does not parse returns an error, issues
\* no pull call and relays nothing; a pull call is only ever issued for the
\* reference PullImage parsed successfully.
C5_ParseFailureNoPull ==
    \A c \in Callers :
        call[c].op = "PullImage" =>
            /\ ParseNormalizedNamed(call[c].arg).err =>
                  /\ pc[c] = "returned"
                  /\ ret[c].err = ParseError
                  /\ calls[c] = NoCalls
                  /\ request[c] = NoRequest
                  /\ out[c] = NoStream
                  /\ stdout[c] = "nothing"
            /\ calls[c].ImagePull > 0 =>
                  /\ ~ParseNormalizedNamed(call[c].arg).err
                  /\ request[c].call = "ImagePull"
                  /\ request[c].ref = call[c].arg

\* a reference with an empty tag was refused
C5_Witness ==
    \E c \in Callers :
        /\ Returned(c, "PullImage")
        /\ call[c].arg = <<"a", ":">>
        /\ ret[c].err = ParseError

\* base64url of the JSON text of an auth configuration holding user and
\* pass and nothing else, as computed outside the model
AnonymousBlob == <<"e", "3", "0", "=">>

UserOnlyBlob ==
    <<"e", "y", "J", "1", "c", "2", "V", "y", "b", "m", "F", "t", "Z", "S", "I", "6",
      "I", "n", "U", "i", "f", "Q", "=", "=">>

UserPassBlob ==
    <<"e", "y", "J", "1", "c", "2", "V", "y", "b", "m", "F", "t", "Z", "S", "I", "6",
      "I", "n", "U", "i", "L", "C", "J", "w", "Y", "X", "N", "z", "d", "2", "9", "y",
      "Z", "C", "I", "6", "I", "n", "A", "i", "f", "Q", "=", "=">>

CredentialsBlob(user, pass) ==
    CASE user = EmptyString /\ pass = EmptyString -> AnonymousBlob
      [] user = <<"u">> /\ pass = EmptyString -> UserOnlyBlob
      [] user = <<"u">> /\ pass = <<"p">> -> UserPassBlob

\* the registry of a reference: what precedes the first "/" when that holds
\* a "." or a ":", the default registry otherwise
RegistryOf(ref) ==
    LET i == IndexRune(ref, "/")
    IN  IF i > 0 /\ (Contains(SubSeq(ref, 1, i - 1), ":") \/ Contains(SubSeq(ref, 1, i - 1), "."))
        THEN SubSeq(ref, 1, i - 1)
        ELSE DefaultDomain

\* C6: the credential lookup never makes PullImage fail: for a reference
\* that parses, PullImage issues exactly one pull call, whose auth blob is
\* non-empty and encodes empty credentials when the configuration cannot be
\* read or has no entry for the registry, and the entry's username and
\* password and nothing else when it has one.
C6_CredentialLookupDegradesToAnonymous ==
    \A c \in Callers :
        call[c].op = "PullImage" /\ ~ParseNormalizedNamed(call[c].arg).err =>
            LET cfg == observed[c].dockerCfg
                registry == RegistryOf(call[c].arg)
                anonymous == cfg.err \/ registry \notin DOMAIN cfg.Configs
                expected == IF anonymous
                            THEN AnonymousBlob
                            ELSE CredentialsBlob(cfg.Configs[registry].Username,
                                                 cfg.Configs[registry].Password)
            IN  /\ pc[c] \in {"PullImage_ImagePull", "PullImage_Copy", "returned"}
                /\ locals[c].authStr = expected
                /\ pc[c] \in {"PullImage_Copy", "returned"} =>
                      /\ calls[c].ImagePull = 1
                      /\ request[c].call = "ImagePull"
                      /\ request[c].RegistryAuth # EmptyString
                      /\ request[c].RegistryAuth = expected
                /\ pc[c] = "returned" => ret[c].err \in {NoError, Canceled, DaemonError}

\* a pull from the default registry, whose stored entry also holds an e-mail
\* address, a server address and a token, went through
C6_Witness ==
    \E c \in Callers :
        /\ Returned(c, "PullImage")
        /\ ret[c].err = NoError
        /\ ~observed[c].dockerCfg.err
        /\ DefaultDomain \in DOMAIN observed[c].dockerCfg.Configs
        /\ call[c].arg = <<"a">>
        /\ request[c].RegistryAuth = UserPassBlob

\* C7: the create call carries exactly one bind mount per mount
\* specification of the configuration, in order, with the specification's
\* source, target and read-only flag.
C7_MountsTranslatedInOrder ==
    \A c \in Callers :
        request[c].call = "ContainerCreate" =>
            LET mounts == request[c].HostConfig.Mounts
                specs == call[c].arg.Mounts
            IN  /\ Len(mounts) = Len(specs)
                /\ \A i \in 1..Len(specs) :
                      /\ mounts[i].Type = "bind"
                      /\ mounts[i].Source = specs[i].Source
                      /\ mounts[i].Target = specs[i].Target
                      /\ mounts[i].ReadOnly = specs[i].ReadOnly

\* a create call for a read-only mount followed by a read-write one
C7_Witness ==
    \E c \in Callers :
        /\ request[c].call = "ContainerCreate"
        /\ Len(call[c].arg.Mounts) = 2
        /\ call[c].arg.Mounts[1].ReadOnly /\ ~call[c].arg.Mounts[2].ReadOnly
        /\ call[c].arg.Mounts[1].Source # call[c].arg.Mounts[2].Source
        /\ Len(request[c].HostConfig.Mounts) = 2

\* C8: every create call has network mode "host", entrypoint ["sh"] and
\* command ["-c", Cmd] with Cmd the configuration's command string as given.
C8_HostNetworkShellEntrypoint ==
    \A c \in Callers :
        request[c].call = "ContainerCreate" =>
            /\ request[c].HostConfig.NetworkMode = "host"
            /\ request[c].Config.Entrypoint = <<"sh">>
            /\ request[c].Config.Cmd = <<"-c", call[c].arg.Cmd>>

\* a create call for a command full of shell metacharacters
C8_Witness ==
    \E c \in Callers :
        /\ request[c].call = "ContainerCreate"
        /\ call[c].arg.Cmd = PipeCmd
        /\ ret[c].err = NoError
        /\ pc[c] = "returned"

DaemonCalls(c) == calls[c].ImageList + calls[c].ImagePull + calls[c].ContainerCreate

\* C9: no operation retries: an invocation issues at most one daemon call,
\* of its own kind, and once a daemon call has failed the operation has
\* returned.
C9_AtMostOneAttempt ==
    \A c \in Callers :
        /\ DaemonCalls(c) <= 1
        /\ calls[c].ImageList > 0 => call[c].op = "HasImage"
        /\ calls[c].ImagePull > 0 => call[c].op = "PullImage"
        /\ calls[c].ContainerCreate > 0 => call[c].op = "ContainerCreate"
        /\ DaemonCalls(c) > 0 /\ locals[c].err # NoError => pc[c] = "returned"

\* a pull the daemon refused, tried once
C9_Witness ==
    \E c \in Callers :
        /\ Returned(c, "PullImage")
        /\ locals[c].err = DaemonError
        /\ ret[c].err = DaemonError
        /\ calls[c].ImagePull = 1

\* C10: the response stream of a pull is closed exactly once by the time
\* PullImage returns, also when the relay to standard output fails; a failed
\* relay does not make PullImage return an error; a PullImage that has
\* returned has no open stream.
C10_StreamClosedOnEveryExit ==
    \A c \in Callers :
        /\ out[c].opened <= 1
        /\ out[c].closed <= out[c].opened
        /\ out[c].opened > 0 => call[c].op = "PullImage"
        /\ pc[c] = "PullImage_Copy" => out[c] = [opened |-> 1, closed |-> 0]
        /\ pc[c] = "returned" => out[c].closed = out[c].opened
        /\ Returned(c, "PullImage") /\ locals[c].err = NoError =>
              /\ out[c] = [opened |-> 1, closed |-> 1]
              /\ ret[c].err = NoError

\* the relay failed while the context was live
C10_Witness ==
    \E c \in Callers :
        /\ ~cancelled
        /\ Returned(c, "PullImage")
        /\ stdout[c] = "a part"
        /\ out[c] = [opened |-> 1, closed |-> 1]
        /\ ret[c].err = NoError

====
